---- MODULE Spec2Model ----
(***************************************************************************)
(* Request execution of coro-http: HttpClient::execute (blocking) and      *)
(* CoroHttpClient::co_execute (suspending).  One request is in flight at   *)
(* a time; the call stack of execute_with_redirects is the variable        *)
(* `stack`.  A C++ std::string is a sequence of one-character strings.     *)
(***************************************************************************)
EXTENDS Integers, Sequences, FiniteSets, TLC

VARIABLES
    client,            \* "sync" = HttpClient, "coro" = CoroHttpClient
    config_,           \* the client's ClientConfig member
    pc,                \* position of the innermost execute_with_redirects
    stack,             \* frames of execute_with_redirects, outermost first
    socket,            \* the socket local to execute_http / execute_https
    timer,             \* the steady_timer local to the current operation
    timeout_occurred,  \* the flag the timer callback would set
    stalled,           \* the pending I/O has made no progress for its timeout
    server_silent,     \* the peer accepts the connection and then sends nothing
    response_data,     \* what read_with_timeout / co_read_response has read
    ret,               \* the response travelling up the recursion
    wire,              \* requests written to a socket by this execute
    followed,          \* Location values followed by this execute, in order
    outcome,           \* what the last execute returned or threw
    keep_alive,        \* the peer leaves the connection open after responding
    sockets,           \* per socket opened by this execute: times it was closed
    retry_policy,      \* a RetryPolicy object
    delay,             \* what the last get_delay() returned, and for what
    calls,             \* the execute / co_execute calls made on one client
    ssl_verify_mode,   \* the verify mode of the client's ssl_context_
    io_stopped,        \* io_context_.stopped()
    runs,              \* the calls of CoroHttpClient::run, in order
    pair,              \* one request executed by both clients side by side
    fed,               \* the lines an SSE server has sent, in order
    stream_data,       \* the text of those lines
    current_event,     \* the SseEvent carried between parse_sse_line calls
    data_lines,        \* the data lines carried between parse_sse_line calls
    events,            \* the events parse_sse_line has pushed
    decision,          \* what the last should_retry returned, and for what
    http_response,     \* an HttpResponse object
    added,             \* the add_header calls made on it, in order
    chunks,            \* the chunks a server has written, in order
    chunked_data,      \* the bytes of the chunked body received
    framing,           \* how far the chunked body got: open, complete, ...
    decoded            \* what decode_chunked made of chunked_data

vars == <<client, config_, pc, stack, socket, timer, timeout_occurred,
          server_silent, stalled, response_data, ret, wire, followed, outcome,
          keep_alive, sockets>>

\* the variables of the RetryPolicy and of the several-calls specifications
request_vars ==
    <<pc, stack, socket, timer, timeout_occurred, server_silent, stalled,
      response_data, ret, wire, followed, outcome, keep_alive, sockets>>
delay_vars == <<retry_policy, delay>>
call_vars == <<calls, ssl_verify_mode>>
run_vars == <<io_stopped, runs>>
pair_vars == <<pair>>
sse_vars == <<fed, stream_data, current_event, data_lines, events>>
retry_vars == <<decision>>
header_vars == <<http_response, added>>
chunk_vars == <<chunks, chunked_data, framing, decoded>>
codec_vars == <<header_vars, chunk_vars>>
later_vars == <<run_vars, pair_vars, sse_vars, retry_vars, codec_vars>>
outside_run ==
    <<vars, delay_vars, call_vars, pair_vars, sse_vars, retry_vars, codec_vars>>
outside_pair ==
    <<vars, delay_vars, call_vars, run_vars, sse_vars, retry_vars, codec_vars>>
outside_sse ==
    <<vars, delay_vars, call_vars, run_vars, pair_vars, retry_vars, codec_vars>>
outside_retry ==
    <<vars, delay, call_vars, run_vars, pair_vars, sse_vars, codec_vars>>
outside_header ==
    <<vars, delay_vars, call_vars, run_vars, pair_vars, sse_vars, retry_vars,
      chunk_vars>>
outside_chunk ==
    <<vars, delay_vars, call_vars, run_vars, pair_vars, sse_vars, retry_vars,
      header_vars>>
aux_vars == <<delay_vars, call_vars, later_vars>>
all_vars == <<vars, aux_vars>>

-----------------------------------------------------------------------------
(* Bounds *)

MaxRedirectsBound == 2

-----------------------------------------------------------------------------
(* Characters and strings *)

UpperCase == <<"A","B","C","D","E","F","G","H","I","J","K","L","M",
               "N","O","P","Q","R","S","T","U","V","W","X","Y","Z">>
LowerCase == <<"a","b","c","d","e","f","g","h","i","j","k","l","m",
               "n","o","p","q","r","s","t","u","v","w","x","y","z">>
DigitChars == <<"0","1","2","3","4","5","6","7","8","9">>

IsUpper(c) == \E i \in 1..Len(UpperCase) : UpperCase[i] = c

\* std::tolower on one char
tolower(c) ==
    IF IsUpper(c)
    THEN LowerCase[CHOOSE i \in 1..Len(UpperCase) : UpperCase[i] = c]
    ELSE c

\* the byte value of a char, which orders the keys of a std::map<std::string,..>
CharCode(c) ==
    IF \E i \in 1..26 : UpperCase[i] = c
    THEN 64 + (CHOOSE i \in 1..26 : UpperCase[i] = c)
    ELSE IF \E i \in 1..26 : LowerCase[i] = c
    THEN 96 + (CHOOSE i \in 1..26 : LowerCase[i] = c)
    ELSE IF \E i \in 1..10 : DigitChars[i] = c
    THEN 47 + (CHOOSE i \in 1..10 : DigitChars[i] = c)
    ELSE IF c = "-" THEN 45
    ELSE IF c = "." THEN 46
    ELSE IF c = "/" THEN 47
    ELSE 58

\* std::string operator< (lexicographic on bytes)
StrLess(a, b) ==
    \E i \in 1..(Len(b)) :
        /\ \A j \in 1..(i-1) : j <= Len(a) /\ a[j] = b[j]
        /\ \/ i = Len(a) + 1
           \/ i <= Len(a) /\ CharCode(a[i]) < CharCode(b[i])

strcasecmp_impl(a, b) ==
    /\ Len(a) = Len(b)
    /\ \A i \in 1..Len(a) : tolower(a[i]) = tolower(b[i])

HasPrefix(s, p) == Len(s) >= Len(p) /\ SubSeq(s, 1, Len(p)) = p
Drop(s, n) == SubSeq(s, n + 1, Len(s))
\* std::string::find of one char: 0 when absent
IndexOf(s, c) ==
    IF \E i \in 1..Len(s) : s[i] = c
    THEN CHOOSE i \in 1..Len(s) : s[i] = c /\ \A j \in 1..(i-1) : s[j] # c
    ELSE 0
IsDigits(s) ==
    /\ Len(s) > 0
    /\ \A i \in 1..Len(s) : \E d \in 1..10 : DigitChars[d] = s[i]

S_http == <<"h","t","t","p">>
S_https == <<"h","t","t","p","s">>
S_sep == <<":","/","/">>
DefaultPort ==
    [http |-> <<"8","0">>,
     https |-> <<"4","4","3">>]
S_Location == <<"L","o","c","a","t","i","o","n">>
S_ContentLength ==
    <<"C","o","n","t","e","n","t","-","L","e","n","g","t","h">>
S_location == <<"l","o","c","a","t","i","o","n">>

-----------------------------------------------------------------------------
(* URL parser (url_parser.hpp) *)

InvalidUrlInfo ==
    [ok |-> FALSE, scheme |-> <<>>, host |-> <<>>, port |-> <<>>,
     path |-> <<>>, is_https |-> FALSE]

parse_url(url) ==
    LET https == HasPrefix(url, S_https \o S_sep)
        http == HasPrefix(url, S_http \o S_sep)
    IN  IF ~(http \/ https) THEN InvalidUrlInfo
        ELSE
        LET scheme == IF https THEN S_https ELSE S_http
            rest == Drop(url, Len(scheme) + 3)
            slash == IndexOf(rest, "/")
            authority == IF slash = 0 THEN rest ELSE SubSeq(rest, 1, slash - 1)
            path == IF slash = 0 THEN <<"/">> ELSE Drop(rest, slash - 1)
            colon == IndexOf(authority, ":")
            host == IF colon = 0 THEN authority
                    ELSE SubSeq(authority, 1, colon - 1)
            port == IF colon = 0 THEN (IF https THEN DefaultPort.https ELSE DefaultPort.http)
                    ELSE Drop(authority, colon)
        IN  IF host = <<>> \/ ~IsDigits(port) THEN InvalidUrlInfo
            ELSE [ok |-> TRUE, scheme |-> scheme, host |-> host,
                  port |-> port, path |-> path, is_https |-> https]

Origin(u) == <<u.scheme, u.host, u.port>>

-----------------------------------------------------------------------------
(* HttpResponse *)

\* HttpResponse(): status 0, no headers, empty redirect chain
EmptyResponse ==
    [status_code |-> 0, headers |-> <<>>, body |-> <<>>,
     redirect_chain |-> <<>>]

\* headers_ is a std::map: here a sequence of <<key, value>> pairs kept
\* sorted by key with unique keys
MapKeys(m) == {m[i][1] : i \in 1..Len(m)}

get_header(r, key) ==
    LET m == r.headers IN
    IF \E i \in 1..Len(m) : m[i][1] = key
    THEN m[CHOOSE i \in 1..Len(m) : m[i][1] = key][2]
    ELSE IF \E i \in 1..Len(m) : strcasecmp_impl(m[i][1], key)
    THEN m[CHOOSE i \in 1..Len(m) :
              /\ strcasecmp_impl(m[i][1], key)
              /\ \A j \in 1..(i-1) : ~strcasecmp_impl(m[j][1], key)][2]
    ELSE <<>>

response_set_body(r, body) == [r EXCEPT !.body = body]

add_redirect(r, url) ==
    [r EXCEPT !.redirect_chain = Append(@, url)]

\* headers_[key] = value on the std::map: replace an equal key, else insert
\* at the position that keeps the keys ordered
add_header(r, key, value) ==
    LET m == r.headers IN
    IF \E i \in 1..Len(m) : m[i][1] = key
    THEN [r EXCEPT !.headers =
             [i \in 1..Len(m) |->
                 IF m[i][1] = key THEN <<key, value>> ELSE m[i]]]
    ELSE LET n == Cardinality({i \in 1..Len(m) : StrLess(m[i][1], key)})
         IN  [r EXCEPT !.headers =
                 SubSeq(m, 1, n) \o <<<<key, value>>>>
                 \o SubSeq(m, n + 1, Len(m))]

set_status_code(r, code) == [r EXCEPT !.status_code = code]

-----------------------------------------------------------------------------
(* Inputs: the requests a caller submits and the responses a server sends *)

Url ==
    [a |-> S_http \o S_sep \o <<"a","/","x">>,
     a81 |-> S_http \o S_sep \o <<"a",":","8","1","/","x">>,
     b |-> S_https \o S_sep \o <<"b","/","y">>,
     ftp |-> <<"f","t","p">> \o S_sep \o <<"a","/","x">>]
Urls == {Url.a, Url.a81, Url.b, Url.ftp}

Loc ==
    [path |-> <<"/","n">>,
     rel |-> <<"n">>]
Locations == {Loc.path, Loc.rel, Url.b, Url.a}

Methods == {"GET", "HEAD", "POST"}

V_secret == <<"s">>

HttpRequest(method, url) ==
    [method |-> method, url |-> url, headers |-> {}, body |-> <<>>]

\* HttpRequest::add_header; the request's headers are a set of <<name, value>>
\* pairs with at most one pair per name
req_add_header(req, key, value) ==
    [req EXCEPT !.headers = {h \in @ : h[1] # key} \cup {<<key, value>>}]

set_body(req, body) == [req EXCEPT !.body = body]

HeaderNames(req) == {h[1] : h \in req.headers}
HeaderValue(req, key) == (CHOOSE h \in req.headers : h[1] = key)[2]

\* the value of the Host header for an origin: host, and :port unless default
HostHeaderFor(u) ==
    u.host \o (IF u.port # (IF u.is_https THEN DefaultPort.https ELSE DefaultPort.http)
               THEN <<":">> \o u.port ELSE <<>>)

\* build_request: request line and the user's headers, with Host injected
\* only when the user's headers have none
build_request(request, url_info) ==
    [method |-> request.method,
     target |-> url_info,
     path |-> url_info.path,
     headers |-> IF "Host" \in HeaderNames(request)
                 THEN request.headers
                 ELSE request.headers
                      \cup {<<"Host", HostHeaderFor(url_info)>>},
     body |-> request.body]

\* the headers a caller supplies with a request to url
UserHeaders(url) ==
    {{}, {<<"Authorization", V_secret>>}} \cup
    (IF parse_url(url).ok
     THEN {{<<"Host", HostHeaderFor(parse_url(url))>>}}
     ELSE {})

Requests ==
    UNION {{[set_body(HttpRequest(m, u), IF m = "POST" THEN <<"d">> ELSE <<>>)
                EXCEPT !.headers = h] : m \in Methods, h \in UserHeaders(u)} :
           u \in Urls}

\* what parse_response yields for the bytes a server sent
ServerResponses ==
    {response_set_body(add_header(set_status_code(EmptyResponse, 200),
                                  S_ContentLength, <<"1">>), <<"k">>),
     add_header(set_status_code(EmptyResponse, 201), S_Location, Loc.path),
     add_header(set_status_code(EmptyResponse, 302),
                S_ContentLength, <<"0">>),
     add_header(set_status_code(EmptyResponse, 302), S_Location, <<>>)} \cup
    {add_header(set_status_code(EmptyResponse, 302), S_location, l) :
        l \in {Loc.path}} \cup
    {add_header(set_status_code(EmptyResponse, 301), S_Location, l) :
        l \in Locations \ {Loc.path}}

Configs ==
    [follow_redirects : BOOLEAN, max_redirects : 0..MaxRedirectsBound]

-----------------------------------------------------------------------------
(* State *)

\* a frame of execute_with_redirects: its arguments and its locals
Frame(request, redirect_count) ==
    [request |-> request, redirect_count |-> redirect_count,
     url_info |-> InvalidUrlInfo, response |-> EmptyResponse]

NoOutcome == [kind |-> "none", error |-> "", response |-> EmptyResponse]
Returned(r) == [kind |-> "ok", error |-> "", response |-> r]
Thrown(e) == [kind |-> "error", error |-> e, response |-> EmptyResponse]

Top == stack[Len(stack)]
SetTop(f) == [stack EXCEPT ![Len(stack)] = f]
Pop == SubSeq(stack, 1, Len(stack) - 1)

NoRequest ==
    /\ pc = "idle"
    /\ stack = <<>>
    /\ socket = "none"
    /\ timer = "none"
    /\ timeout_occurred = FALSE
    /\ stalled = FALSE
    /\ server_silent = FALSE
    /\ response_data = <<>>
    /\ ret = EmptyResponse
    /\ wire = <<>>
    /\ followed = <<>>
    /\ outcome = NoOutcome
    /\ keep_alive = FALSE
    /\ sockets = <<>>

\* no RetryPolicy in use
NoDelay == [attempt |-> -1, jitter |-> 100, value |-> 0]
NoPolicy ==
    /\ retry_policy = [initial_delay_ |-> 0, max_delay_ |-> 0,
                       backoff_factor_ |-> [num |-> 1, den |-> 1],
                       current_attempt_ |-> 0]
    /\ delay = NoDelay

\* no call made yet
NoCalls ==
    /\ calls = <<>>
    /\ ssl_verify_mode = "verify_peer"

\* io_context_(): not stopped, nothing spawned
NoRuns ==
    /\ io_stopped = FALSE
    /\ runs = <<>>

\* an executor with no request
IdleExec == [stack |-> <<>>, wire |-> <<>>, outcome |-> NoOutcome]
NoPair == pair = [sync |-> IdleExec, coro |-> IdleExec]

\* SseEvent{}
EmptySseEvent ==
    [type |-> <<>>, data |-> <<>>, id |-> <<>>, retry |-> <<>>, fields |-> {}]
NoSse ==
    /\ fed = <<>>
    /\ stream_data = <<>>
    /\ current_event = EmptySseEvent
    /\ data_lines = <<>>
    /\ events = <<>>

\* should_retry not called yet
NoDecision ==
    [attempt |-> -1, error |-> <<>>, status_code |-> 0, result |-> FALSE]
NoRetry == decision = NoDecision

\* a fresh HttpResponse; no chunked body received
NotDecoded == [kind |-> "none", body |-> <<>>]
NoCodec ==
    /\ http_response = EmptyResponse
    /\ added = <<>>
    /\ chunks = <<>>
    /\ chunked_data = <<>>
    /\ framing = "open"
    /\ decoded = NotDecoded

NoLater == NoRuns /\ NoPair /\ NoSse /\ NoRetry /\ NoCodec

Init ==
    /\ client \in {"sync", "coro"}
    /\ config_ \in Configs
    /\ NoRequest
    /\ NoPolicy
    /\ NoCalls
    /\ NoLater

\* ~basic_socket: the destructor of an open socket closes it
CloseLast(s) == [s EXCEPT ![Len(s)] = @ + 1]

\* an exception that leaves the socket it unwinds past open
Throw_LeaksSocket(e) ==
    /\ pc' = "idle"
    /\ stack' = <<>>
    /\ timer' = IF timer = "armed" THEN "cancelled" ELSE timer
    /\ outcome' = Thrown(e)
    /\ UNCHANGED <<socket, sockets, keep_alive, client, server_silent,
                   config_, timeout_occurred, stalled, response_data, ret,
                   wire, followed>>

\* an exception leaves every frame: the locals (socket, timer) are destroyed
Throw(e) ==
    /\ pc' = "idle"
    /\ stack' = <<>>
    /\ socket' = IF socket = "open" THEN "closed" ELSE socket
    /\ timer' = IF timer = "armed" THEN "cancelled" ELSE timer
    /\ sockets' = IF socket = "open" THEN CloseLast(sockets) ELSE sockets
    /\ outcome' = Thrown(e)
    /\ UNCHANGED <<keep_alive, client, server_silent, config_,
                   timeout_occurred, stalled, response_data, ret, wire,
                   followed>>

\* set_config: config_ = config
set_config(config) ==
    /\ UNCHANGED aux_vars
    /\ pc = "idle"
    /\ config # config_
    /\ config_' = config
    /\ outcome' = NoOutcome
    /\ UNCHANGED <<keep_alive, sockets, client, server_silent, pc, stack, socket, timer,
                   timeout_occurred, stalled, response_data, ret, wire,
                   followed>>

\* execute / co_execute: execute_with_redirects(request, 0)
execute(request) ==
    /\ UNCHANGED aux_vars
    /\ pc = "idle"
    /\ pc' = "parse_url"
    /\ stack' = <<Frame(request, 0)>>
    /\ socket' = "none"
    /\ timer' = "none"
    /\ timeout_occurred' = FALSE
    /\ stalled' = FALSE
    /\ server_silent' = FALSE
    /\ response_data' = <<>>
    /\ ret' = EmptyResponse
    /\ wire' = <<>>
    /\ followed' = <<>>
    /\ outcome' = NoOutcome
    /\ keep_alive' = FALSE
    /\ sockets' = <<>>
    /\ UNCHANGED <<client, config_>>

\* ParseUrlStep that goes on to resolve whatever parse_url made of the URL
ParseUrlStep_Unchecked ==
    /\ UNCHANGED aux_vars
    /\ pc = "parse_url"
    /\ stack' = SetTop([Top EXCEPT !.url_info = parse_url(Top.request.url)])
    /\ pc' = "resolve"
    /\ UNCHANGED <<keep_alive, sockets, client, server_silent, config_,
                   socket, timer, timeout_occurred, stalled, response_data,
                   ret, wire, followed, outcome>>

\* auto url_info = parse_url(request.url())
ParseUrlStep ==
    /\ UNCHANGED aux_vars
    /\ pc = "parse_url"
    /\ LET info == parse_url(Top.request.url) IN
       IF ~info.ok THEN Throw("InvalidUrl")
       ELSE /\ stack' = SetTop([Top EXCEPT !.url_info = info])
            /\ pc' = "resolve"
            /\ UNCHANGED <<keep_alive, sockets, client, server_silent, config_, socket, timer,
                           timeout_occurred, stalled, response_data, ret,
                           wire, followed, outcome>>

\* what the peer does with an accepted connection: respond and close, respond
\* and leave the connection open (keep-alive), or send nothing
PeerBehaviours == {"close", "keep_alive", "silent"}

\* resolver.resolve, then the socket (and, in HttpClient, the connect timer)
\* is constructed and the connect is started
Resolve ==
    /\ UNCHANGED aux_vars
    /\ pc = "resolve"
    /\ \E resolved \in BOOLEAN, peer \in PeerBehaviours :
        IF ~resolved THEN Throw("ResolveError")
        ELSE /\ pc' = "connect"
             /\ server_silent' = (peer = "silent")
             /\ keep_alive' = (peer = "keep_alive")
             /\ sockets' = Append(sockets, 0)
             /\ socket' = "open"
             /\ timer' = IF client = "sync" THEN "armed" ELSE "none"
             /\ timeout_occurred' = FALSE
             /\ stalled' = FALSE
             /\ UNCHANGED <<client, config_, stack, response_data, ret, wire,
                            followed, outcome>>

\* TimeoutElapses on a client that runs the expired timer's callback at once:
\* the callback sets the flag and closes the socket
TimeoutElapses_RunsCallback ==
    /\ UNCHANGED aux_vars
    /\ pc \in {"connect", "handshake", "read"}
    /\ ~stalled
    /\ stalled' = TRUE
    /\ timer' = IF timer = "armed" THEN "expired" ELSE timer
    /\ timeout_occurred' = (timer = "armed")
    /\ UNCHANGED <<keep_alive, sockets, client, server_silent, config_, pc,
                   stack, socket, response_data, ret, wire, followed,
                   outcome>>

\* Time passes while an operation is pending: connect_timeout since the
\* connect started, or read_timeout since the last read progress.  In
\* HttpClient the steady_timer expires and its handler becomes ready on
\* io_context_; HttpClient never calls io_context_.run()/poll(), so no step
\* of the program executes that handler.  CoroHttpClient arms no timer.
TimeoutElapses ==
    /\ UNCHANGED aux_vars
    /\ pc \in {"connect", "handshake", "read"}
    /\ ~stalled
    /\ stalled' = TRUE
    /\ timer' = IF timer = "armed" THEN "expired" ELSE timer
    /\ UNCHANGED <<keep_alive, sockets, client, server_silent, config_, pc, stack, socket,
                   timeout_occurred, response_data, ret, wire, followed,
                   outcome>>

\* timer.cancel()
timer_cancel == IF timer = "armed" THEN "cancelled" ELSE timer

\* the checks after connect / handshake: which exception, "" for none
ConnectFailure(ec) ==
    IF client = "sync" /\ (timeout_occurred \/ ec = "operation_aborted")
    THEN "Timeout"
    ELSE IF ec = "ok" THEN ""
    ELSE IF ec = "tls_error" THEN "TlsError"
    ELSE "ConnectError"

\* asio::connect / async_connect completes with ec
Connect ==
    /\ UNCHANGED aux_vars
    /\ pc = "connect"
    /\ \E ec \in {"ok", "refused"} :
        IF Top.url_info.is_https /\ ~timeout_occurred /\ ec = "ok"
        THEN /\ pc' = "handshake"
             /\ UNCHANGED <<keep_alive, sockets, client, server_silent, config_, stack, socket,
                            timer, timeout_occurred, stalled, response_data,
                            ret, wire, followed, outcome>>
        ELSE IF ConnectFailure(ec) # "" THEN Throw(ConnectFailure(ec))
        ELSE /\ pc' = "write"
             /\ timer' = timer_cancel
             /\ UNCHANGED <<keep_alive, sockets, client, server_silent, config_, stack, socket,
                            timeout_occurred, stalled, response_data, ret,
                            wire, followed, outcome>>

\* ssl_socket.handshake / async_handshake completes with ec
Handshake ==
    /\ UNCHANGED aux_vars
    /\ pc = "handshake"
    /\ ~server_silent
    /\ \E ec \in {"ok", "tls_error"} :
        IF ConnectFailure(ec) # "" THEN Throw(ConnectFailure(ec))
        ELSE /\ pc' = "write"
             /\ timer' = timer_cancel
             /\ UNCHANGED <<keep_alive, sockets, client, server_silent, config_, stack, socket,
                            timeout_occurred, stalled, response_data, ret,
                            wire, followed, outcome>>

\* build_request and asio::write / async_write, then read_with_timeout /
\* co_read_response starts (HttpClient arms the read timer)
Write ==
    /\ UNCHANGED aux_vars
    /\ pc = "write"
    /\ \E written \in BOOLEAN :
        IF ~written THEN Throw("WriteError")
        ELSE /\ wire' = Append(wire, build_request(Top.request, Top.url_info))
             /\ pc' = "read"
             /\ response_data' = <<>>
             /\ timer' = IF client = "sync" THEN "armed" ELSE "none"
             /\ timeout_occurred' = FALSE
             /\ stalled' = FALSE
             /\ UNCHANGED <<keep_alive, sockets, client, server_silent, config_, stack, socket,
                            ret, followed, outcome>>

\* read_some returns len > 0: response_data.append
ReadSome(r) ==
    /\ UNCHANGED aux_vars
    /\ pc = "read"
    /\ ~server_silent
    /\ response_data = <<>>
    /\ response_data' = <<r>>
    /\ stalled' = FALSE
    /\ UNCHANGED <<keep_alive, sockets, client, server_silent, config_, pc, stack, socket, timer,
                   timeout_occurred, ret, wire, followed, outcome>>

\* read_with_timeout arms the timer once, before its loop, and the loop never
\* re-arms it: after a read the timer still runs from the start of
\* read_with_timeout, so it expires read_timeout after that start, before
\* read_timeout has passed since the last read
ReadTimerExpires ==
    /\ UNCHANGED aux_vars
    /\ pc = "read"
    /\ timer = "armed"
    /\ response_data # <<>>
    /\ ~stalled
    /\ timer' = "expired"
    /\ UNCHANGED <<keep_alive, sockets, client, server_silent, config_, pc,
                   stack, socket, timeout_occurred, stalled, response_data,
                   ret, wire, followed, outcome>>

\* parse_response: fails on data that holds no complete response head
parse_response(data) ==
    IF data = <<>> THEN [ok |-> FALSE, response |-> EmptyResponse]
    ELSE [ok |-> TRUE, response |-> data[1]]

\* read_some returns with an error code: eof ends the loop, parse_response
\* runs and execute_http returns (destroying socket and timer); every other
\* code throws
ReadEnd ==
    /\ UNCHANGED aux_vars
    /\ pc = "read"
    /\ ~server_silent
    /\ ~keep_alive
    /\ \E ec \in {"eof", "reset"} :
        IF ec = "eof"
        THEN IF ~parse_response(response_data).ok THEN Throw("ProtocolError")
             ELSE /\ stack' = SetTop([Top EXCEPT !.response =
                                        parse_response(response_data).response])
                  /\ pc' = "redirect"
                  /\ socket' = "closed"
                  /\ sockets' = CloseLast(sockets)
                  /\ timer' = timer_cancel
                  /\ UNCHANGED <<keep_alive, client, server_silent, config_,
                                 timeout_occurred, stalled, response_data,
                                 ret, wire, followed, outcome>>
        ELSE IF client = "sync" /\ ec = "operation_aborted" /\ timeout_occurred
        THEN Throw("Timeout")
        ELSE Throw("ReadError")

-----------------------------------------------------------------------------
(* Redirects: execute_with_redirects after the response is in *)

\* ShouldFollow with the hop budget compared by <= instead of <
ShouldFollow_OffByOne(cfg, redirect_count, response) ==
    /\ cfg.follow_redirects
    /\ redirect_count <= cfg.max_redirects
    /\ response.status_code >= 300 /\ response.status_code < 400

\* config_.follow_redirects && redirect_count < config_.max_redirects &&
\* 300 <= status < 400
ShouldFollow(cfg, redirect_count, response) ==
    /\ cfg.follow_redirects
    /\ redirect_count < cfg.max_redirects
    /\ response.status_code >= 300 /\ response.status_code < 400

\* ResolveLocation without the port of the current origin
ResolveLocation_NoPort(url_info, location) ==
    IF location[1] = "/"
    THEN url_info.scheme \o S_sep \o url_info.host \o location
    ELSE location

\* if (location[0] == '/')
\*     location = scheme + "://" + host + (port is default ? "" : ":" + port)
\*                + location
ResolveLocation(url_info, location) ==
    IF location[1] = "/"
    THEN url_info.scheme \o S_sep \o url_info.host \o
         (IF url_info.port # (IF url_info.is_https THEN DefaultPort.https ELSE DefaultPort.http)
          THEN <<":">> \o url_info.port ELSE <<>>) \o
         location
    ELSE location

\* HttpRequest redirect_req(HttpMethod::GET, location) with every header of
\* request added
RedirectRequest(request, location) ==
    [HttpRequest("GET", location) EXCEPT !.headers = request.headers]

\* NextHop with add_redirect(location) done before location.empty() is tested
NextHop_RecordsFirst(cfg, f) ==
    LET location == get_header(f.response, S_Location) IN
    IF ShouldFollow(cfg, f.redirect_count, f.response)
    THEN [follow |-> location # <<>>,
          response |-> add_redirect(f.response, location),
          request |-> IF location # <<>>
                      THEN RedirectRequest(f.request,
                               ResolveLocation(f.url_info, location))
                      ELSE f.request]
    ELSE [follow |-> FALSE, response |-> f.response, request |-> f.request]

\* the redirect block of execute_with_redirects for one frame: whether a hop
\* is followed, the frame's response afterwards and the follow-up request
NextHop(cfg, f) ==
    LET location == get_header(f.response, S_Location) IN
    IF ShouldFollow(cfg, f.redirect_count, f.response) /\ location # <<>>
    THEN [follow |-> TRUE,
          response |-> add_redirect(f.response, location),
          request |-> RedirectRequest(f.request,
                                      ResolveLocation(f.url_info, location))]
    ELSE [follow |-> FALSE, response |-> f.response, request |-> f.request]

\* return r from the innermost frame
Return(r) ==
    /\ stack' = Pop
    /\ ret' = r
    /\ IF Len(stack) = 1
       THEN pc' = "idle" /\ outcome' = Returned(r)
       ELSE pc' = "unwind" /\ outcome' = outcome

\* the redirect decision of the innermost frame
Redirect ==
    /\ UNCHANGED aux_vars
    /\ pc = "redirect"
    /\ LET hop == NextHop(config_, Top) IN
       IF hop.follow
       THEN /\ stack' = Append(SetTop([Top EXCEPT !.response = hop.response]),
                               Frame(hop.request, Top.redirect_count + 1))
            /\ pc' = "parse_url"
            /\ followed' =
                   Append(followed, get_header(Top.response, S_Location))
            /\ UNCHANGED <<ret, outcome>>
       ELSE Return(hop.response) /\ UNCHANGED followed
    /\ UNCHANGED <<keep_alive, sockets, client, server_silent, config_, socket, timer,
                   timeout_occurred, stalled, response_data, wire>>

\* for (url : response.redirect_chain()) redirect_resp.add_redirect(url)
AddRedirects(redirect_resp, chain) ==
    [redirect_resp EXCEPT !.redirect_chain = @ \o chain]

\* the recursive call returned redirect_resp: append this frame's chain to it
\* and return it
Unwind ==
    /\ UNCHANGED aux_vars
    /\ pc = "unwind"
    /\ Return(AddRedirects(ret, Top.response.redirect_chain))
    /\ UNCHANGED <<keep_alive, sockets, client, server_silent, config_, socket, timer,
                   timeout_occurred, stalled, response_data, wire, followed>>

Next ==
    \/ \E config \in Configs : set_config(config)
    \/ \E request \in Requests : execute(request)
    \/ ParseUrlStep
    \/ Resolve
    \/ TimeoutElapses
    \/ Connect
    \/ Handshake
    \/ Write
    \/ \E r \in ServerResponses : ReadSome(r)
    \/ ReadTimerExpires
    \/ ReadEnd
    \/ Redirect
    \/ Unwind

Spec == Init /\ [][Next]_vars

\* The program's own steps are taken when they are enabled, and the system
\* completes a resolve, connect, handshake or write it was asked for; nothing
\* obliges a server to send data or to close the connection.
FairSpec ==
    Spec /\ WF_vars(ParseUrlStep \/ Resolve \/ Connect \/ Handshake \/ Write
                    \/ Redirect \/ Unwind)

-----------------------------------------------------------------------------
(* Properties *)

Is3xx(r) == r.status_code >= 300 /\ r.status_code < 400

\* the response carries a header named Location (in any letter case) whose
\* value is v
HasLocation(r, v) ==
    \E i \in 1..Len(r.headers) :
        /\ Len(r.headers[i][1]) = Len(S_location)
        /\ \A k \in 1..Len(S_location) :
               tolower(r.headers[i][1][k]) = S_location[k]
        /\ r.headers[i][2] = v

LocationAbsent(r) == \A v \in Locations : ~HasLocation(r, v)

\* C1: every response execute / co_execute returns has a redirect chain of
\* at most max_redirects entries, and an empty one when follow_redirects is
\* false.
C1_ChainBounded ==
    outcome.kind = "ok" =>
        /\ Len(outcome.response.redirect_chain) <= config_.max_redirects
        /\ ~config_.follow_redirects => outcome.response.redirect_chain = <<>>

C1_Witness ==
    /\ outcome.kind = "ok"
    /\ config_.max_redirects >= 2
    /\ Len(outcome.response.redirect_chain) = config_.max_redirects

\* C2: with follow_redirects on, execute never returns as its result a 3xx
\* response that carries a non-empty Location: when the hop budget is used
\* up it fails with RedirectLimit instead.
C2_RedirectLimit ==
    (outcome.kind = "ok" /\ config_.follow_redirects) =>
        ~(Is3xx(outcome.response) /\ ~LocationAbsent(outcome.response))

\* C3: the redirect chain of the returned response lists the followed
\* Location values in the order they were traversed, first hop first.
C3_ChainInTraversalOrder ==
    outcome.kind = "ok" => outcome.response.redirect_chain = followed

\* C4: a followed Location beginning with '/' is requested at the origin of
\* the request that received the 3xx, with the Location as its path; any
\* other Location is used unchanged as the URL; the frame's chain records the
\* Location as received.
C4_LocationResolved ==
    \A i \in 1..(Len(stack) - 1) :
        LET f == stack[i]
            g == stack[i + 1]
            loc == f.response.redirect_chain[1]
            target == parse_url(g.request.url)
        IN  /\ f.response.redirect_chain = <<loc>>
            /\ HasLocation(f.response, loc)
            /\ IF loc[1] = "/"
               THEN /\ target.ok
                    /\ Origin(target) = Origin(f.url_info)
                    /\ target.path = loc
               ELSE g.request.url = loc
            /\ (pc # "unwind" /\ i + 1 <= Len(wire) /\ loc[1] = "/") =>
                   /\ Origin(wire[i + 1].target) = Origin(wire[i].target)
                   /\ wire[i + 1].path = loc

C4_Witness ==
    /\ Len(stack) = 2
    /\ Len(wire) = 2
    /\ pc = "read"
    /\ stack[1].response.redirect_chain = <<Loc.path>>
    /\ stack[1].url_info.port = <<"8","1">>
    /\ wire[2].target.port = <<"8","1">>

\* C5: a 3xx response with an empty or missing Location is returned as it
\* was received: no further request is sent and nothing is added to the
\* redirect chain for it.
C5_EmptyLocationReturned ==
    (/\ outcome.kind = "ok"
     /\ Is3xx(outcome.response)
     /\ LocationAbsent(outcome.response)) =>
        /\ outcome.response.status_code = response_data[1].status_code
        /\ outcome.response.headers = response_data[1].headers
        /\ Len(outcome.response.redirect_chain) = Len(followed)
        /\ Len(wire) = Len(followed) + 1

C5_Witness ==
    /\ outcome.kind = "ok"
    /\ Is3xx(outcome.response)
    /\ HasLocation(outcome.response, <<>>)
    /\ config_.follow_redirects
    /\ Len(followed) = 1
    /\ Len(followed) < config_.max_redirects

\* C6: the follow-up request of a redirect hop has method GET, or HEAD when
\* the redirected request was HEAD, carries exactly the headers of the
\* redirected request and has no body.
C6_FollowUpRequest ==
    \A i \in 1..(Len(stack) - 1) :
        /\ stack[i + 1].request.method =
               (IF stack[i].request.method = "HEAD" THEN "HEAD" ELSE "GET")
        /\ stack[i + 1].request.headers = stack[i].request.headers
        /\ stack[i + 1].request.body = <<>>

\* C7: a follow-up request sent to an origin other than that of the request
\* that received the 3xx carries no Authorization header.
C7_NoAuthorizationCrossOrigin ==
    \A i \in 2..Len(wire) :
        Origin(wire[i].target) # Origin(wire[i - 1].target) =>
            \A h \in wire[i].headers : h[1] # "Authorization"

\* C8: every request put on the wire has a Host header naming the origin the
\* request is sent to, also after a redirect to another host.
C8_HostNamesTarget ==
    \A i \in 1..Len(wire) :
        \E h \in wire[i].headers :
            h[1] = "Host" /\ h[2] = HostHeaderFor(wire[i].target)

\* C9: in the blocking client a read that has made no progress for
\* read_timeout, on a server that accepted the connection and sends nothing,
\* leads to a Timeout error with the socket closed.
C9_ReadTimesOut ==
    (client = "sync" /\ pc = "read" /\ server_silent /\ stalled)
        ~> (outcome.kind = "error" /\ outcome.error = "Timeout"
            /\ socket = "closed")

\* C10: in the suspending client a handshake or read that has made no
\* progress for its timeout, because the server never responds, leads to a
\* Timeout error.
C10_CoroTimesOut ==
    (client = "coro" /\ pc \in {"handshake", "read"} /\ server_silent
     /\ stalled)
        ~> (outcome.kind = "error" /\ outcome.error = "Timeout")

\* C11: read_timeout bounds inactivity, not the total duration: while a
\* response is being read the read timer expires only when no byte has
\* arrived for read_timeout, because every successful read restarts it.
C11_TimerFollowsInactivity ==
    [][(pc = "read" /\ timer = "armed" /\ timer' = "expired") => stalled']_vars

\* the decimal number a header value spells
RECURSIVE ParseNat(_)
ParseNat(s) ==
    IF s = <<>> THEN 0
    ELSE 10 * ParseNat(SubSeq(s, 1, Len(s) - 1))
         + (IndexOf(DigitChars, s[Len(s)]) - 1)

\* the bytes read so far hold a response head with Content-Length: N and N
\* bytes of body
ContentLengthReached(data) ==
    /\ data # <<>>
    /\ get_header(data[1], S_ContentLength) # <<>>
    /\ IsDigits(get_header(data[1], S_ContentLength))
    /\ ParseNat(get_header(data[1], S_ContentLength)) = Len(data[1].body)

\* C12: on a connection the server keeps open, a response with
\* Content-Length: N is complete once its head and N body bytes are read:
\* the client is not still reading, waiting for the close or for a timer.
C12_CompleteAtContentLength ==
    ~(pc = "read" /\ keep_alive /\ ContentLengthReached(response_data))

\* C13: every socket an execute opened is closed exactly once: none is
\* closed twice, and once execute has returned or thrown none is open.
C13_SocketsClosedOnce ==
    /\ \A i \in 1..Len(sockets) : sockets[i] <= 1
    /\ pc = "idle" =>
          /\ socket # "open"
          /\ \A i \in 1..Len(sockets) : sockets[i] = 1

\* an execute that followed a redirect and then threw with a socket open
C13_Witness ==
    /\ pc = "idle"
    /\ outcome.kind = "error"
    /\ outcome.error \in {"ConnectError", "ReadError", "TlsError"}
    /\ Len(sockets) >= 2

-----------------------------------------------------------------------------
(* RetryPolicy (compression.hpp): the backoff delay *)

MaxAttempts == 3

\* RetryPolicy(...): current_attempt_(0); initial_delay_ and max_delay_ in
\* milliseconds, backoff_factor_ as a fraction
RetryPolicies ==
    [initial_delay_ : {1, 100, 20000}, max_delay_ : {300, 10000},
     backoff_factor_ : {[num |-> 2, den |-> 1], [num |-> 3, den |-> 2]},
     current_attempt_ : {0}]

\* std::pow on whole numbers
RECURSIVE Pow(_, _)
Pow(b, k) == IF k = 0 THEN 1 ELSE b * Pow(b, k - 1)

\* initial_delay_.count() * pow(backoff_factor_, current_attempt_), as the
\* fraction BaseNum / BaseDen
BaseNum(rp, k) == rp.initial_delay_ * Pow(rp.backoff_factor_.num, k)
BaseDen(rp, k) == Pow(rp.backoff_factor_.den, k)

\* get_delay without the cap at max_delay_
get_delay_NoCap(rp, jitter) ==
    IF rp.current_attempt_ = 0 THEN rp.initial_delay_
    ELSE (BaseNum(rp, rp.current_attempt_) * jitter)
            \div (BaseDen(rp, rp.current_attempt_) * 100)

\* get_delay: attempt 0 returns initial_delay_; later attempts truncate
\* base_delay * jitter to whole milliseconds and cap it at max_delay_
get_delay(rp, jitter) ==
    IF rp.current_attempt_ = 0 THEN rp.initial_delay_
    ELSE LET d == (BaseNum(rp, rp.current_attempt_) * jitter)
                     \div (BaseDen(rp, rp.current_attempt_) * 100)
         IN  IF d > rp.max_delay_ THEN rp.max_delay_ ELSE d

\* a caller asks the policy for the delay before the next attempt
GetDelay ==
    \* uniform_real_distribution(0.75, 1.25), in hundredths
    /\ \E jitter \in {75, 80, 100, 120, 125} :
          delay' = [attempt |-> retry_policy.current_attempt_,
                    jitter |-> IF retry_policy.current_attempt_ = 0
                               THEN 100 ELSE jitter,
                    value |-> get_delay(retry_policy, jitter)]
    /\ UNCHANGED <<retry_policy, call_vars, vars, later_vars>>

\* increment_attempt: current_attempt_++
increment_attempt ==
    /\ retry_policy.current_attempt_ < MaxAttempts
    /\ retry_policy' = [retry_policy EXCEPT !.current_attempt_ = @ + 1]
    /\ UNCHANGED <<delay, call_vars, vars, later_vars>>

\* reset: current_attempt_ = 0
reset ==
    /\ retry_policy.current_attempt_ > 0
    /\ retry_policy' = [retry_policy EXCEPT !.current_attempt_ = 0]
    /\ UNCHANGED <<delay, call_vars, vars, later_vars>>

DelayInit ==
    /\ client = "sync"
    /\ config_ = [follow_redirects |-> TRUE, max_redirects |-> 0]
    /\ NoRequest
    /\ NoCalls
    /\ NoLater
    /\ retry_policy \in RetryPolicies
    /\ delay = NoDelay

DelayNext ==
    \/ GetDelay
    \/ increment_attempt
    \/ reset

DelaySpec == DelayInit /\ [][DelayNext]_all_vars

\* the policy with the attempt counter at the attempt `delay` was computed for
DelayPolicy == [retry_policy EXCEPT !.current_attempt_ = delay.attempt]

Min(a, b) == IF a <= b THEN a ELSE b

\* initial_delay = 100 ms, factor 2, max_delay = 10 s, attempt 2: a delay in
\* [300 ms, 500 ms]
DelayExample ==
    (/\ retry_policy.initial_delay_ = 100
     /\ retry_policy.backoff_factor_ = [num |-> 2, den |-> 1]
     /\ retry_policy.max_delay_ = 10000
     /\ delay.attempt = 2)
    => (300 <= delay.value /\ delay.value <= 500)

\* C17 as stated: for attempt k >= 1 the delay d satisfies
\* 0.75 * initial * factor^k <= d <= min(1.25 * initial * factor^k, max_delay).
C17_DelayWithinJitter ==
    delay.attempt >= 1 =>
        /\ 75 * BaseNum(DelayPolicy, delay.attempt)
              <= delay.value * 100 * BaseDen(DelayPolicy, delay.attempt)
        /\ delay.value * 100 * BaseDen(DelayPolicy, delay.attempt)
              <= 125 * BaseNum(DelayPolicy, delay.attempt)
        /\ delay.value <= retry_policy.max_delay_
        /\ DelayExample

\* C17, amended: for attempt k >= 1 the delay d satisfies
\* min(floor(0.75 * initial * factor^k), max_delay) <= d
\*   <= min(1.25 * initial * factor^k, max_delay); with initial = 100 ms,
\* factor 2, max_delay = 10 s and k = 2 that is 300 ms <= d <= 500 ms.
C17_DelayWithinCappedJitter ==
    delay.attempt >= 1 =>
        /\ Min((75 * BaseNum(DelayPolicy, delay.attempt))
                  \div (100 * BaseDen(DelayPolicy, delay.attempt)),
               retry_policy.max_delay_) <= delay.value
        /\ delay.value * 100 * BaseDen(DelayPolicy, delay.attempt)
              <= 125 * BaseNum(DelayPolicy, delay.attempt)
        /\ delay.value <= retry_policy.max_delay_
        /\ DelayExample

\* a delay for an attempt k >= 1 that the cap reduced, and the example's case
C17_Witness ==
    /\ delay.attempt >= 1
    /\ delay.value = retry_policy.max_delay_
    /\ get_delay_NoCap(DelayPolicy, delay.jitter) > retry_policy.max_delay_

\* C18: the delay get_delay returns never exceeds max_delay, for every
\* attempt (attempt 0 included) and every configuration (initial_delay
\* above max_delay included).
C18_DelayAtMostMax ==
    delay.attempt >= 0 => delay.value <= retry_policy.max_delay_

-----------------------------------------------------------------------------
(* Several calls on one client: HttpClient::execute one after the other,   *)
(* CoroHttpClient::co_execute also concurrently on the one io_context_.    *)
(* A call is the frame of its innermost execute_with_redirects and the     *)
(* socket local to the execute_http / execute_https that frame is in.      *)

MaxCalls == 2
MaxConnsBound == 1
MaxRetriesBound == 1

\* ClientConfig with the pool and retry settings
CallConfigs ==
    [follow_redirects : BOOLEAN, max_redirects : {1}, verify_ssl : BOOLEAN,
     max_connections_per_host : 1..MaxConnsBound,
     enable_retry : {TRUE}, max_retries : 1..MaxRetriesBound]

\* the constructor: ssl_context_.set_verify_mode from config_.verify_ssl
VerifyModeOf(config) ==
    IF config.verify_ssl THEN "verify_peer" ELSE "verify_none"

\* get(url) on a plain and on a TLS origin
CallRequests == {HttpRequest("GET", Url.a), HttpRequest("GET", Url.b)}

\* what the server of `url` answers: 200, or a redirect to the same URL
CallResponses(url) ==
    {set_status_code(EmptyResponse, 200),
     add_header(set_status_code(EmptyResponse, 302), S_Location, url)}

\* execute_with_redirects(request, redirect_count) up to the connect: the URL
\* is parsed, the socket constructed and the connect started
EnterHop(call, request, redirect_count) ==
    [call EXCEPT
        !.frame = [Frame(request, redirect_count)
                      EXCEPT !.url_info = parse_url(request.url)],
        !.pc = "connect",
        !.open = TRUE,
        !.opened = @ + 1,
        !.attempts = IF redirect_count = 0 THEN @ + 1 ELSE @]

\* execute(request) / co_execute(request)
NewCall(request, config) ==
    EnterHop([frame |-> Frame(request, 0), pc |-> "start", open |-> FALSE,
              opened |-> 0, attempts |-> 0, config_at_start |-> config,
              peer_verified |-> "none", diverged |-> FALSE, error |-> ""],
             request, 0)

InFlight(call) == call.pc \in {"connect", "handshake", "exchange"}

\* a blocking execute returns before the caller can do anything else; a
\* coroutine is suspended at each co_await and others run meanwhile
MayInterleave ==
    client = "coro" \/ \A i \in 1..Len(calls) : ~InFlight(calls[i])

\* an exception leaves the call: the socket is destroyed
CallThrow(call, e) ==
    [call EXCEPT !.pc = "thrown", !.open = FALSE, !.error = e]

Call(request) ==
    /\ Len(calls) < MaxCalls
    /\ MayInterleave
    /\ calls' = Append(calls, NewCall(request, config_))
    /\ UNCHANGED <<client, config_, ssl_verify_mode, request_vars,
                   delay_vars, later_vars>>

\* set_config between calls, or from a coroutine while others are suspended
CallSetConfig(config) ==
    /\ MayInterleave
    /\ config # config_
    /\ config_' = config
    /\ UNCHANGED <<client, calls, ssl_verify_mode, request_vars,
                   delay_vars, later_vars>>

\* asio::connect / async_connect completes
CallConnect(i) ==
    /\ calls[i].pc = "connect"
    /\ \E ec \in {"ok", "refused"} :
          calls' = [calls EXCEPT ![i] =
              IF ec # "ok" THEN CallThrow(@, "ConnectError")
              ELSE [@ EXCEPT !.pc = IF calls[i].frame.url_info.is_https
                                    THEN "handshake" ELSE "exchange"]]
    /\ UNCHANGED <<client, config_, ssl_verify_mode, request_vars,
                   delay_vars, later_vars>>

\* handshake on a stream made from ssl_context_: the peer certificate is
\* checked iff the context's verify mode is verify_peer
CallHandshake(i) ==
    /\ calls[i].pc = "handshake"
    /\ \E cert_ok \in BOOLEAN :
          calls' = [calls EXCEPT ![i] =
              IF ssl_verify_mode = "verify_peer" /\ ~cert_ok
              THEN [CallThrow(@, "TlsError") EXCEPT !.peer_verified = "yes"]
              ELSE [@ EXCEPT !.pc = "exchange",
                             !.peer_verified =
                                 IF ssl_verify_mode = "verify_peer"
                                 THEN "yes" ELSE "no"]]
    /\ UNCHANGED <<client, config_, ssl_verify_mode, request_vars,
                   delay_vars, later_vars>>

\* write, read to eof, parse_response; execute_http returns (its socket is
\* destroyed) and execute_with_redirects decides on config_ as it is now
CallExchange(i) ==
    /\ calls[i].pc = "exchange"
    /\ \E response \in CallResponses(calls[i].frame.request.url) :
        LET f == [calls[i].frame EXCEPT !.response = response]
            hop == NextHop(config_, f)
            hop_at_start == NextHop(calls[i].config_at_start, f)
            seen == [calls[i] EXCEPT
                        !.frame = f,
                        !.open = FALSE,
                        !.diverged = @ \/ hop.follow # hop_at_start.follow]
        IN  calls' = [calls EXCEPT ![i] =
                IF hop.follow
                THEN EnterHop(seen, hop.request, f.redirect_count + 1)
                ELSE [seen EXCEPT !.pc = "returned"]]
    /\ UNCHANGED <<client, config_, ssl_verify_mode, request_vars,
                   delay_vars, later_vars>>

CallsInit ==
    /\ client \in {"sync", "coro"}
    /\ config_ \in CallConfigs
    /\ ssl_verify_mode = VerifyModeOf(config_)
    /\ calls = <<>>
    /\ NoRequest
    /\ NoPolicy
    /\ NoLater

CallsNext ==
    \/ \E request \in CallRequests : Call(request)
    \/ \E config \in CallConfigs : CallSetConfig(config)
    \/ \E i \in 1..Len(calls) : CallConnect(i)
    \/ \E i \in 1..Len(calls) : CallHandshake(i)
    \/ \E i \in 1..Len(calls) : CallExchange(i)

CallsSpec == CallsInit /\ [][CallsNext]_all_vars

\* calls whose socket is open on origin o
OpenOn(o) ==
    {i \in 1..Len(calls) : calls[i].open /\ Origin(calls[i].frame.url_info) = o}

CallOrigins == {Origin(parse_url(request.url)) : request \in CallRequests}

\* sockets opened by the first n calls
RECURSIVE OpenedBy(_)
OpenedBy(n) == IF n = 0 THEN 0 ELSE OpenedBy(n - 1) + calls[n].opened

\* C14: for every origin the number of its connections never exceeds
\* max_connections_per_host, also when coroutine requests run concurrently;
\* requests beyond the limit wait instead of opening a connection.
C14_ConnectionsWithinLimit ==
    \A o \in CallOrigins :
        Cardinality(OpenOn(o)) <= config_.max_connections_per_host

\* C15: successful requests made one after the other to one origin open at
\* most max_connections_per_host sockets in total.
C15_SequentialRequestsReuse ==
    (/\ client = "sync"
     /\ \A i \in 1..Len(calls) :
           /\ calls[i].pc = "returned"
           /\ calls[i].frame.redirect_count = 0
           /\ calls[i].frame.url_info = calls[1].frame.url_info
           /\ calls[i].config_at_start = config_)
    => OpenedBy(Len(calls)) <= config_.max_connections_per_host

\* C16: with enable_retry set, a request whose every attempt fails with a
\* retriable error has made exactly max_retries + 1 attempts when it throws.
C16_RetriesExhausted ==
    \A i \in 1..Len(calls) :
        (/\ calls[i].pc = "thrown"
         /\ calls[i].error = "ConnectError"
         /\ calls[i].frame.redirect_count = 0
         /\ calls[i].config_at_start.enable_retry)
        => calls[i].attempts = calls[i].config_at_start.max_retries + 1

\* C19: a set_config made while a coroutine request is in flight is not
\* observed by that request: it decides as the configuration it started
\* with decides.
C19_ConfigFixedAtStart ==
    \A i \in 1..Len(calls) : client = "coro" => ~calls[i].diverged

\* C20: the peer of an HTTPS request is verified iff verify_ssl is set in
\* the configuration in effect when the request starts, a configuration
\* installed by set_config included.
C20_VerifiedIffConfigured ==
    \A i \in 1..Len(calls) :
        calls[i].peer_verified # "none" =>
            (calls[i].peer_verified = "yes"
                <=> calls[i].config_at_start.verify_ssl)

-----------------------------------------------------------------------------
(* CoroHttpClient::run: co_spawn(io_context_, coro, detached), then         *)
(* io_context_.run().  io_context::run returns when the context has run    *)
(* out of work, which leaves the context stopped, and returns at once,     *)
(* executing no handler, when the context is stopped; nothing in the       *)
(* client calls io_context_.restart().                                     *)

MaxRuns == 4
MaxWork == 4

\* a call of run: the resumptions its coroutine still needs to complete,
\* and whether run has returned
NewRun(work) == [work |-> work, returned |-> FALSE]

Running == runs # <<>> /\ ~runs[Len(runs)].returned

\* run(coro): co_spawn posts the coroutine's first resumption
RunCall(work) ==
    /\ ~Running
    /\ Len(runs) < MaxRuns
    /\ runs' = Append(runs, NewRun(work))
    /\ UNCHANGED <<io_stopped, outside_run>>

\* io_context_.run() executes a ready handler: a spawned coroutine resumes
\* and runs to its next suspension point or to its end
RunHandler(i) ==
    /\ Running
    /\ ~io_stopped
    /\ runs[i].work > 0
    /\ runs' = [runs EXCEPT ![i].work = @ - 1]
    /\ UNCHANGED <<io_stopped, outside_run>>

\* io_context_.run() on a context with no work left: the context becomes
\* stopped and run returns
RunOutOfWork ==
    /\ Running
    /\ ~io_stopped
    /\ \A i \in 1..Len(runs) : runs[i].work = 0
    /\ io_stopped' = TRUE
    /\ runs' = [runs EXCEPT ![Len(runs)].returned = TRUE]
    /\ UNCHANGED outside_run

\* io_context_.run() on a stopped context returns at once
RunStopped ==
    /\ Running
    /\ io_stopped
    /\ runs' = [runs EXCEPT ![Len(runs)].returned = TRUE]
    /\ UNCHANGED <<io_stopped, outside_run>>

RunInit ==
    /\ client = "coro"
    /\ config_ = [follow_redirects |-> TRUE, max_redirects |-> 0]
    /\ NoRequest
    /\ NoPolicy
    /\ NoCalls
    /\ NoRuns
    /\ NoPair
    /\ NoSse
    /\ NoRetry
    /\ NoCodec

RunNext ==
    \/ \E work \in 1..MaxWork : RunCall(work)
    \/ \E i \in 1..Len(runs) : RunHandler(i)
    \/ RunOutOfWork
    \/ RunStopped

RunSpec == RunInit /\ [][RunNext]_all_vars

\* C21: every call of run, a second and any later one on the same client
\* included, returns only after the computation it was given has completed.
C21_RunCompletes ==
    \A i \in 1..Len(runs) : runs[i].returned => runs[i].work = 0

-----------------------------------------------------------------------------
(* HttpClient::execute and CoroHttpClient::co_execute side by side: the    *)
(* same request, the same config_, and hop by hop the same events from the *)
(* network, with no timer expiring.                                        *)

\* the checks after connect / handshake in client c: which exception, ""
\* for none
ConnectFailureOf(c, timed_out, ec) ==
    IF c = "sync" /\ (timed_out \/ ec = "operation_aborted") THEN "Timeout"
    ELSE IF ec = "ok" THEN ""
    ELSE IF ec = "tls_error" THEN "TlsError"
    ELSE "ConnectError"

\* ReadFailureOf where co_read_response does not take stream_truncated for
\* the end of the response
ReadFailureOf_CoroStrict(c, timed_out, ec) ==
    IF ec = "eof" \/ (ec = "stream_truncated" /\ c = "sync") THEN ""
    ELSE IF c = "sync" /\ ec = "operation_aborted" /\ timed_out
    THEN "Timeout"
    ELSE "ReadError"

\* the checks on the error code of read_some / async_read_some in client c:
\* which exception, "" for the end of the response
ReadFailureOf(c, timed_out, ec) ==
    IF ec = "eof" \/ ec = "stream_truncated" THEN ""
    ELSE IF c = "sync" /\ ec = "operation_aborted" /\ timed_out
    THEN "Timeout"
    ELSE "ReadError"

\* what the network does to one hop: where it fails if it does, else the
\* bytes the server sends and how the stream ends
HopEvents ==
    [fail_at : {"resolve", "connect", "handshake", "write", "read"},
     read_ec : {"eof"}, data : {<<>>}] \cup
    [fail_at : {"none"}, read_ec : {"eof", "stream_truncated"},
     data : {<<>>} \cup {<<r>> : r \in ServerResponses}]

\* an exception leaves every frame
ExecThrow(st, e) == [st EXCEPT !.stack = <<>>, !.outcome = Thrown(e)]

\* the innermost frame returns r: every frame below appends its chain
RECURSIVE UnwindAll(_, _)
UnwindAll(r, frames) ==
    IF frames = <<>> THEN r
    ELSE UnwindAll(AddRedirects(r, frames[Len(frames)].response.redirect_chain),
                   SubSeq(frames, 1, Len(frames) - 1))

\* one hop of execute_with_redirects in client c: parse_url, execute_http or
\* execute_https under the event ev, then the redirect decision
HopStep(c, cfg, st, ev) ==
    LET top == st.stack[Len(st.stack)]
        below == SubSeq(st.stack, 1, Len(st.stack) - 1)
        info == parse_url(top.request.url)
        connect_ec == IF ev.fail_at = "connect" THEN "refused" ELSE "ok"
        handshake_ec == IF ev.fail_at = "handshake" THEN "tls_error" ELSE "ok"
        read_ec == IF ev.fail_at = "read" THEN "reset" ELSE ev.read_ec
        sent == [st EXCEPT !.wire = Append(@, build_request(top.request, info))]
        f == [top EXCEPT !.url_info = info,
                         !.response = parse_response(ev.data).response]
        hop == NextHop(cfg, f)
    IN  IF ~info.ok THEN ExecThrow(st, "InvalidUrl")
        ELSE IF ev.fail_at = "resolve" THEN ExecThrow(st, "ResolveError")
        ELSE IF ConnectFailureOf(c, FALSE, connect_ec) # ""
        THEN ExecThrow(st, ConnectFailureOf(c, FALSE, connect_ec))
        ELSE IF info.is_https /\ ConnectFailureOf(c, FALSE, handshake_ec) # ""
        THEN ExecThrow(st, ConnectFailureOf(c, FALSE, handshake_ec))
        ELSE IF ev.fail_at = "write" THEN ExecThrow(st, "WriteError")
        ELSE IF ReadFailureOf(c, FALSE, read_ec) # ""
        THEN ExecThrow(sent, ReadFailureOf(c, FALSE, read_ec))
        ELSE IF ~parse_response(ev.data).ok
        THEN ExecThrow(sent, "ProtocolError")
        ELSE IF hop.follow
        THEN [sent EXCEPT !.stack =
                 Append(Append(below, [f EXCEPT !.response = hop.response]),
                        Frame(hop.request, f.redirect_count + 1))]
        ELSE [sent EXCEPT !.stack = <<>>,
                          !.outcome = Returned(UnwindAll(hop.response, below))]

\* execute(request) on an HttpClient and co_execute(request) on a
\* CoroHttpClient with the same config_
PairExecute(request) ==
    /\ pair.sync.stack = <<>> /\ pair.coro.stack = <<>>
    /\ pair.sync.outcome = NoOutcome /\ pair.coro.outcome = NoOutcome
    /\ pair' = [sync |-> [IdleExec EXCEPT !.stack = <<Frame(request, 0)>>],
                coro |-> [IdleExec EXCEPT !.stack = <<Frame(request, 0)>>]]
    /\ UNCHANGED outside_pair

\* both clients take their next hop under the same event; one that has
\* already returned or thrown stays as it is
PairHop(ev) ==
    /\ pair.sync.stack # <<>> \/ pair.coro.stack # <<>>
    /\ pair' = [sync |-> IF pair.sync.stack = <<>> THEN pair.sync
                         ELSE HopStep("sync", config_, pair.sync, ev),
                coro |-> IF pair.coro.stack = <<>> THEN pair.coro
                         ELSE HopStep("coro", config_, pair.coro, ev)]
    /\ UNCHANGED outside_pair

PairInit ==
    /\ client = "sync"
    /\ config_ \in Configs
    /\ NoRequest
    /\ NoPolicy
    /\ NoCalls
    /\ NoRuns
    /\ NoPair
    /\ NoSse
    /\ NoRetry
    /\ NoCodec

PairNext ==
    \/ \E request \in Requests : PairExecute(request)
    \/ \E ev \in HopEvents : PairHop(ev)

PairSpec == PairInit /\ [][PairNext]_all_vars

-----------------------------------------------------------------------------
(* Server-sent events (compression.hpp): parse_sse_stream on a whole       *)
(* stream and parse_sse_line on its lines one by one                       *)

MaxSseLines == 5

NL == "\n"
CR == "\r"
SseField ==
    [event |-> <<"e","v","e","n","t">>,
     data |-> <<"d","a","t","a">>,
     id |-> <<"i","d">>,
     retry |-> <<"r","e","t","r","y">>]

\* a line "field: value" as a server writes it
FieldLine(field, value) ==
    [kind |-> "field", field |-> field, value |-> value,
     text |-> field \o <<":", " ">> \o value]

\* the lines a server sends: fields, a field line ended by CR LF, a field
\* with an empty value, a retry line, an unknown field, a comment and the
\* blank line
SseLines ==
    {FieldLine(SseField.event, <<"m">>), FieldLine(SseField.id, <<"7">>),
     FieldLine(SseField.data, <<"a">>), FieldLine(SseField.data, <<"b">>),
     [FieldLine(SseField.data, <<"c">>) EXCEPT !.text = @ \o <<CR>>],
     [FieldLine(SseField.data, <<>>) EXCEPT !.text = SseField.data \o <<":">>],
     FieldLine(SseField.retry, <<"3">>),
     FieldLine(<<"x">>, <<"1">>),
     [kind |-> "comment", field |-> <<>>, value |-> <<>>,
      text |-> <<":", "k">>],
     [kind |-> "blank", field |-> <<>>, value |-> <<>>, text |-> <<>>]}

\* SseEvent::empty
SseEmpty(e) == e.data = <<>> /\ e.type = <<>> /\ e.id = <<>>

\* data_lines joined: "\n" before every line but the first
RECURSIVE JoinData(_)
JoinData(lines) ==
    IF lines = <<>> THEN <<>>
    ELSE IF Len(lines) = 1 THEN lines[1]
    ELSE JoinData(SubSeq(lines, 1, Len(lines) - 1))
            \o <<NL>> \o lines[Len(lines)]

\* if (!line.empty() && line.back() == '\r') line.pop_back()
StripCR(line) ==
    IF line # <<>> /\ line[Len(line)] = CR
    THEN SubSeq(line, 1, Len(line) - 1) ELSE line

\* SplitField that leaves the space after the colon in the value
SplitField_KeepSpace(line) ==
    LET colon_pos == IndexOf(line, ":")
    IN  IF colon_pos = 0 THEN [field |-> line, value |-> <<>>]
        ELSE [field |-> SubSeq(line, 1, colon_pos - 1),
              value |-> SubSeq(line, colon_pos + 1, Len(line))]

\* SplitField that takes every field for data
SplitField_NameIgnored(line) ==
    LET colon_pos == IndexOf(line, ":")
        rest == SubSeq(line, colon_pos + 1, Len(line))
    IN  IF colon_pos = 0 THEN [field |-> SseField.data, value |-> <<>>]
        ELSE [field |-> SseField.data,
              value |-> IF rest # <<>> /\ rest[1] = " "
                        THEN SubSeq(rest, 2, Len(rest)) ELSE rest]

\* field and value of a line: split at the first colon, one leading space
\* of the value removed; a line without colon is all field
SplitField(line) ==
    LET colon_pos == IndexOf(line, ":")
        rest == SubSeq(line, colon_pos + 1, Len(line))
    IN  IF colon_pos = 0 THEN [field |-> line, value |-> <<>>]
        ELSE [field |-> SubSeq(line, 1, colon_pos - 1),
              value |-> IF rest # <<>> /\ rest[1] = " "
                        THEN SubSeq(rest, 2, Len(rest)) ELSE rest]

\* current_event.fields[field] = value
SetField(fields, field, value) ==
    {p \in fields : p[1] # field} \cup {<<field, value>>}

\* something of an event has been seen since the last dispatch
SsePending(st) ==
    \/ st.data_lines # <<>>
    \/ st.current_event.type # <<>>
    \/ st.current_event.id # <<>>
    \/ st.current_event.retry # <<>>

\* the event with its data lines joined, pushed unless it is empty
SsePush(st) ==
    LET e == [st.current_event EXCEPT !.data = @ \o JoinData(st.data_lines)]
    IN  IF SseEmpty(e) THEN st.events ELSE Append(st.events, e)

\* parse_sse_line(line, current_event, data_lines, events) on the state st
parse_sse_line(line, st) ==
    LET processed_line == StripCR(line)
        fv == SplitField(processed_line)
    IN  IF processed_line = <<>>
        THEN IF SsePending(st)
             THEN [current_event |-> EmptySseEvent, data_lines |-> <<>>,
                   events |-> SsePush(st)]
             ELSE st
        ELSE IF processed_line[1] = ":" THEN st
        ELSE IF fv.field = SseField.event
        THEN [st EXCEPT !.current_event.type = fv.value]
        ELSE IF fv.field = SseField.data
        THEN [st EXCEPT !.data_lines = Append(@, fv.value)]
        ELSE IF fv.field = SseField.id
        THEN [st EXCEPT !.current_event.id = fv.value]
        ELSE IF fv.field = SseField.retry
        THEN [st EXCEPT !.current_event.retry = fv.value]
        ELSE [st EXCEPT !.current_event.fields =
                           SetField(@, fv.field, fv.value)]

\* std::getline until the stream is exhausted: the text between newlines,
\* and what follows the last newline if that is not empty
RECURSIVE GetLines(_)
GetLines(text) ==
    IF text = <<>> THEN <<>>
    ELSE IF IndexOf(text, NL) = 0 THEN <<text>>
    ELSE <<SubSeq(text, 1, IndexOf(text, NL) - 1)>>
            \o GetLines(SubSeq(text, IndexOf(text, NL) + 1, Len(text)))

\* the body of the while loop of parse_sse_stream for one line
StreamLine(line0, st) ==
    LET line == StripCR(line0)
        fv == SplitField(line)
    IN  IF line = <<>>
        THEN IF SsePending(st)
             THEN [current_event |-> EmptySseEvent, data_lines |-> <<>>,
                   events |-> SsePush(st)]
             ELSE st
        ELSE IF line[1] = ":" THEN st
        ELSE IF fv.field = SseField.event
        THEN [st EXCEPT !.current_event.type = fv.value]
        ELSE IF fv.field = SseField.data
        THEN [st EXCEPT !.data_lines = Append(@, fv.value)]
        ELSE IF fv.field = SseField.id
        THEN [st EXCEPT !.current_event.id = fv.value]
        ELSE IF fv.field = SseField.retry
        THEN [st EXCEPT !.current_event.retry = fv.value]
        ELSE [st EXCEPT !.current_event.fields =
                           SetField(@, fv.field, fv.value)]

RECURSIVE StreamLoop(_, _)
StreamLoop(lines, st) ==
    IF lines = <<>> THEN st
    ELSE StreamLoop(Tail(lines), StreamLine(Head(lines), st))

\* parse_sse_stream without the code after the loop
parse_sse_stream_NoFlush(text) ==
    StreamLoop(GetLines(text),
               [current_event |-> EmptySseEvent,
                data_lines |-> <<>>, events |-> <<>>]).events

\* parse_sse_stream(stream_data): the loop, then the last event if the
\* stream does not end with a blank line
parse_sse_stream(text) ==
    LET st == StreamLoop(GetLines(text),
                         [current_event |-> EmptySseEvent,
                          data_lines |-> <<>>, events |-> <<>>])
    IN  IF SsePending(st) THEN SsePush(st) ELSE st.events

\* the server sends one more line; the streaming client hands it to
\* parse_sse_line with the state it carries
SseFeed(l) ==
    /\ Len(fed) < MaxSseLines
    /\ fed' = Append(fed, l)
    /\ stream_data' = stream_data \o l.text \o <<NL>>
    /\ LET st == parse_sse_line(l.text,
                     [current_event |-> current_event,
                      data_lines |-> data_lines, events |-> events])
       IN  /\ current_event' = st.current_event
           /\ data_lines' = st.data_lines
           /\ events' = st.events
    /\ UNCHANGED outside_sse

SseInit ==
    /\ client = "sync"
    /\ config_ = [follow_redirects |-> TRUE, max_redirects |-> 0]
    /\ NoRequest
    /\ NoPolicy
    /\ NoCalls
    /\ NoRuns
    /\ NoPair
    /\ NoSse
    /\ NoRetry
    /\ NoCodec

SseNext == \E l \in SseLines : SseFeed(l)

SseSpec == SseInit /\ [][SseNext]_all_vars

\* the lines fed with the given field name, in order
LinesOf(field) ==
    SelectSeq(fed, LAMBDA l : l.kind = "field" /\ l.field = field)

\* the values joined by one newline between neighbours
RECURSIVE NewlineSeparated(_)
NewlineSeparated(ls) ==
    IF ls = <<>> THEN <<>>
    ELSE IF Len(ls) = 1 THEN ls[1].value
    ELSE ls[1].value \o <<NL>> \o NewlineSeparated(Tail(ls))

\* the stream is one block: one event line, one id line and two or more
\* data lines in any order, then the blank line
OneBlock ==
    /\ Len(fed) >= 5
    /\ fed[Len(fed)].kind = "blank"
    /\ \A i \in 1..(Len(fed) - 1) :
          fed[i].kind = "field" /\ fed[i].field \in {SseField.event, SseField.id, SseField.data}
    /\ Len(LinesOf(SseField.event)) = 1
    /\ Len(LinesOf(SseField.id)) = 1
    /\ Len(LinesOf(SseField.data)) >= 2

\* C23: a block of an event line, an id line and several data lines, then a
\* blank line, parses to exactly one event with that type and id whose data
\* is the data values in order, joined by single newlines.
C23_BlockYieldsOneEvent ==
    OneBlock =>
        parse_sse_stream(stream_data) =
            <<[type |-> LinesOf(SseField.event)[1].value,
               id |-> LinesOf(SseField.id)[1].value,
               data |-> NewlineSeparated(LinesOf(SseField.data)),
               retry |-> <<>>, fields |-> {}]>>

\* event: m, id: 7, data: a, data: b and the blank line have been parsed
C23_Witness ==
    /\ OneBlock
    /\ LinesOf(SseField.data) =
          <<FieldLine(SseField.data, <<"a">>), FieldLine(SseField.data, <<"b">>)>>
    /\ Len(parse_sse_stream(stream_data)) = 1
    /\ parse_sse_stream(stream_data)[1].data = <<"a", NL, "b">>

S_message == <<"m","e","s","s","a","g","e">>

\* C24: an event dispatched for a block without an event field has type
\* "message".
C24_DefaultTypeIsMessage ==
    LinesOf(SseField.event) = <<>> =>
        \A i \in 1..Len(parse_sse_stream(stream_data)) :
            parse_sse_stream(stream_data)[i].type = S_message

\* C25: feeding a stream line by line through parse_sse_line yields the
\* events parse_sse_stream yields for the whole stream, also when the
\* stream ends without a terminating blank line.
C25_IncrementalEqualsWhole ==
    events = parse_sse_stream(stream_data)

\* C26: an invalid URL fails with InvalidUrl before any resolution or
\* connection is attempted for it, be it the URL given to execute or a
\* redirect target: past parse_url the URL of the hop is valid, and when
\* InvalidUrl is thrown only the hops before the failing one have opened a
\* socket or sent a request.
C26_InvalidUrlBeforeConnect ==
    /\ pc \in {"resolve", "connect", "handshake", "write", "read", "redirect"}
          => (parse_url(Top.request.url).ok
                /\ Top.url_info = parse_url(Top.request.url))
    /\ (outcome.kind = "error" /\ outcome.error = "InvalidUrl")
          => (Len(sockets) = Len(followed) /\ Len(wire) = Len(followed))
    /\ (pc = "idle" /\ outcome.kind = "ok")
          => \A i \in 1..Len(wire) : wire[i].target.ok

\* a redirect was followed to a target that does not parse, and InvalidUrl
\* reached the caller
C26_Witness ==
    /\ pc = "idle"
    /\ outcome.kind = "error"
    /\ outcome.error = "InvalidUrl"
    /\ followed # <<>>
    /\ ~parse_url(followed[Len(followed)]).ok

C28_HandshakeTimesOut ==
    (client = "sync" /\ pc = "handshake" /\ server_silent /\ stalled)
        ~> (outcome.kind = "error" /\ outcome.error = "Timeout")

-----------------------------------------------------------------------------
(* RetryPolicy::should_retry (compression.hpp) in a retry loop             *)

\* e.what() of the errors a request ends with, and the kind of each: the
\* two runtime_errors the client throws, and std::system_error messages

What ==
    [ConnectionTimeout |-> <<"C","o","n","n","e","c","t","i","o","n"," ","t","i","m","e","o","u","t">>,
     ReadTimeout |-> <<"R","e","a","d"," ","t","i","m","e","o","u","t">>,
     ConnectionRefused |-> <<"C","o","n","n","e","c","t","i","o","n"," ","r","e","f","u","s","e","d">>,
     ConnectionReset |-> <<"C","o","n","n","e","c","t","i","o","n"," ","r","e","s","e","t"," ","b","y"," ","p","e","e","r">>,
     BrokenPipe |-> <<"B","r","o","k","e","n"," ","p","i","p","e">>,
     CertificateVerifyFailed |-> <<"c","e","r","t","i","f","i","c","a","t","e"," ","v","e","r","i","f","y"," ","f","a","i","l","e","d">>,
     HostNotFound |-> <<"H","o","s","t"," ","n","o","t"," ","f","o","u","n","d"," ","(","a","u","t","h","o","r","i","t","a","t","i","v","e",")">>,
     NetworkUnreachable |-> <<"N","e","t","w","o","r","k"," ","i","s"," ","u","n","r","e","a","c","h","a","b","l","e">>]

ErrorKind(e) ==
    IF e \in {What.ConnectionTimeout, What.ReadTimeout} THEN "Timeout"
    ELSE IF e \in {What.ConnectionRefused, What.ConnectionReset,
                    What.NetworkUnreachable} THEN "Connect"
    ELSE IF e = What.CertificateVerifyFailed THEN "Tls"
    ELSE IF e = What.BrokenPipe THEN "Write"
    ELSE IF e = What.HostNotFound THEN "Resolve"
    ELSE "Other"

Errors == {What[k] : k \in DOMAIN What}

\* the failures of the transport below HTTP: resolve, connect, write, read
TransportFailures ==
    {What.ConnectionRefused, What.ConnectionReset, What.BrokenPipe,
     What.HostNotFound, What.NetworkUnreachable}

StatusCodes == {0, 200, 499, 500, 599, 600}

\* the substrings should_retry looks for
RetryWords ==
    [timeout |-> <<"t","i","m","e","o","u","t">>,
     Timeout |-> <<"T","i","m","e","o","u","t">>,
     timed_out |-> <<"t","i","m","e","d"," ","o","u","t">>,
     Connection |-> <<"C","o","n","n","e","c","t","i","o","n">>,
     connection |-> <<"c","o","n","n","e","c","t","i","o","n">>,
     refused |-> <<"r","e","f","u","s","e","d">>,
     reset |-> <<"r","e","s","e","t">>,
     broken_pipe |-> <<"b","r","o","k","e","n"," ","p","i","p","e">>,
     network |-> <<"n","e","t","w","o","r","k">>]

\* std::string::find(sub) != npos
Contains(s, sub) ==
    \E i \in 1..(Len(s) - Len(sub) + 1) : SubSeq(s, i, i + Len(sub) - 1) = sub

\* the RetryPolicy objects: the delay settings of the documentation, every
\* combination of the retry_on flags
RetryLoopPolicies ==
    [initial_delay_ : {100}, max_delay_ : {10000},
     backoff_factor_ : {[num |-> 2, den |-> 1]}, current_attempt_ : {0},
     max_retries_ : 0..(MaxRetriesBound + 1),
     retry_on_timeout_ : BOOLEAN, retry_on_connection_error_ : BOOLEAN,
     retry_on_5xx_ : BOOLEAN]

\* should_retry with the attempt limit compared by > instead of >=
should_retry_OffByOne(rp, e, status_code) ==
    IF rp.current_attempt_ > rp.max_retries_ THEN FALSE
    ELSE IF rp.retry_on_timeout_
            /\ (Contains(e, RetryWords.timeout) \/ Contains(e, RetryWords.Timeout)
                \/ Contains(e, RetryWords.timed_out))
    THEN TRUE
    ELSE IF rp.retry_on_connection_error_
            /\ (Contains(e, RetryWords.Connection) \/ Contains(e, RetryWords.connection)
                \/ Contains(e, RetryWords.refused) \/ Contains(e, RetryWords.reset)
                \/ Contains(e, RetryWords.broken_pipe) \/ Contains(e, RetryWords.network))
    THEN TRUE
    ELSE rp.retry_on_5xx_ /\ status_code >= 500 /\ status_code < 600

\* should_retry(e, status_code): substring tests on e.what()
should_retry(rp, e, status_code) ==
    IF rp.current_attempt_ >= rp.max_retries_ THEN FALSE
    ELSE IF rp.retry_on_timeout_
            /\ (Contains(e, RetryWords.timeout) \/ Contains(e, RetryWords.Timeout)
                \/ Contains(e, RetryWords.timed_out))
    THEN TRUE
    ELSE IF rp.retry_on_connection_error_
            /\ (Contains(e, RetryWords.Connection) \/ Contains(e, RetryWords.connection)
                \/ Contains(e, RetryWords.refused) \/ Contains(e, RetryWords.reset)
                \/ Contains(e, RetryWords.broken_pipe) \/ Contains(e, RetryWords.network))
    THEN TRUE
    ELSE rp.retry_on_5xx_ /\ status_code >= 500 /\ status_code < 600

\* an attempt ended with error e and status status_code: the loop asks
\* should_retry
ShouldRetry(e, status_code) ==
    /\ decision.attempt # retry_policy.current_attempt_
    /\ decision' = [attempt |-> retry_policy.current_attempt_, error |-> e,
                   status_code |-> status_code,
                   result |-> should_retry(retry_policy, e, status_code)]
    /\ UNCHANGED <<retry_policy, outside_retry>>

\* should_retry returned true: the loop calls increment_attempt and makes
\* the next attempt
RetryAgain ==
    /\ decision.attempt = retry_policy.current_attempt_
    /\ decision.result
    /\ retry_policy' = [retry_policy EXCEPT !.current_attempt_ = @ + 1]
    /\ UNCHANGED <<decision, outside_retry>>

\* should_retry returned false: the loop ends and reset() prepares the
\* policy for the next request
RetryGiveUp ==
    /\ decision.attempt = retry_policy.current_attempt_
    /\ ~decision.result
    /\ retry_policy.current_attempt_ > 0
    /\ retry_policy' = [retry_policy EXCEPT !.current_attempt_ = 0]
    /\ UNCHANGED <<decision, outside_retry>>

RetryInit ==
    /\ client = "sync"
    /\ config_ = [follow_redirects |-> TRUE, max_redirects |-> 0]
    /\ NoRequest
    /\ NoCalls
    /\ NoRuns
    /\ NoPair
    /\ NoSse
    /\ NoRetry
    /\ NoCodec
    /\ retry_policy \in RetryLoopPolicies
    /\ delay = NoDelay

RetryNext ==
    \/ \E e \in Errors, status_code \in StatusCodes :
          ShouldRetry(e, status_code)
    \/ RetryAgain
    \/ RetryGiveUp

RetrySpec == RetryInit /\ [][RetryNext]_all_vars

\* C29: should_retry returns false for every error and status once
\* current_attempt >= max_retries, so in a loop that increments the attempt
\* only after should_retry returned true, current_attempt never exceeds
\* max_retries.
C29_AttemptsWithinMaxRetries ==
    /\ decision.attempt >= retry_policy.max_retries_ => ~decision.result
    /\ retry_policy.current_attempt_ <= retry_policy.max_retries_

\* the loop has used up its retries and should_retry refused an error it
\* would otherwise retry
C29_Witness ==
    /\ retry_policy.max_retries_ >= 1
    /\ retry_policy.current_attempt_ = retry_policy.max_retries_
    /\ decision.attempt = retry_policy.current_attempt_
    /\ decision.error = What.ConnectionRefused
    /\ retry_policy.retry_on_connection_error_
    /\ ~decision.result

\* C30: with retry_on_timeout false and a status that is not 5xx,
\* should_retry returns false for every timeout error the client raises,
\* whatever retry_on_connection_error is.
C30_TimeoutNotAConnectionError ==
    (/\ decision.attempt >= 0
     /\ ~retry_policy.retry_on_timeout_
     /\ ErrorKind(decision.error) = "Timeout"
     /\ ~(decision.status_code >= 500 /\ decision.status_code < 600))
    => ~decision.result

\* C31: when attempts remain and retry_on_connection_error is set,
\* should_retry returns true for every transport-layer failure: connection
\* refused, connection reset, broken pipe, host not found, network
\* unreachable.
C31_TransportFailuresRetried ==
    (/\ decision.attempt >= 0
     /\ decision.attempt < retry_policy.max_retries_
     /\ retry_policy.retry_on_connection_error_
     /\ decision.error \in TransportFailures)
    => decision.result

-----------------------------------------------------------------------------
(* More on server-sent events (SseSpec)                                    *)

\* an event, data, id or retry line
Recognised(l) ==
    l.kind = "field" /\ l.field \in {SseField.event, SseField.data, SseField.id, SseField.retry}

\* the lines of ls after its last blank line
RECURSIVE Trailing(_)
Trailing(ls) ==
    IF ls = <<>> THEN <<>>
    ELSE IF ls[Len(ls)].kind = "blank" THEN <<>>
    ELSE Append(Trailing(SubSeq(ls, 1, Len(ls) - 1)), ls[Len(ls)])

\* the number of blank-terminated blocks of ls that hold a recognised
\* field; seen tells whether the block being read holds one already
RECURSIVE ContentBlocks(_, _)
ContentBlocks(ls, seen) ==
    IF ls = <<>> THEN 0
    ELSE IF Head(ls).kind = "blank"
    THEN (IF seen THEN 1 ELSE 0) + ContentBlocks(Tail(ls), FALSE)
    ELSE ContentBlocks(Tail(ls), seen \/ Recognised(Head(ls)))

BlankLine == [kind |-> "blank", field |-> <<>>, value |-> <<>>, text |-> <<>>]

\* C32: the parser emits an event only if data, event type, id or retry was
\* set since the last dispatch: there are never more events than blocks
\* holding such a line, so blank lines, comments and unrecognised fields
\* alone produce none, from parse_sse_line and from parse_sse_stream.
C32_EventsOnlyFromContent ==
    /\ Len(events) <= ContentBlocks(fed, FALSE)
    /\ Len(parse_sse_stream(stream_data))
          <= ContentBlocks(Append(fed, BlankLine), FALSE)

\* a stream of blank lines, a comment and an unrecognised field only has
\* been parsed, and no event came of it
C32_Witness ==
    /\ Len(fed) = MaxSseLines
    /\ \A i \in 1..Len(fed) : ~Recognised(fed[i])
    /\ \E i \in 1..Len(fed) : fed[i].kind = "comment"
    /\ \E i \in 1..Len(fed) : fed[i].kind = "field"
    /\ fed[Len(fed)].kind = "blank"
    /\ events = <<>>
    /\ parse_sse_stream(stream_data) = <<>>

\* the event the lines ls make when dispatched is not empty: an event or id
\* value, or data that joins to something
TrailingNonEmpty(ls) ==
    \/ \E i \in 1..Len(ls) :
          Recognised(ls[i]) /\ ls[i].field \in {SseField.event, SseField.id}
                            /\ ls[i].value # <<>>
    \/ \E i \in 1..Len(ls) :
          Recognised(ls[i]) /\ ls[i].field = SseField.data /\ ls[i].value # <<>>
    \/ Len(SelectSeq(ls, LAMBDA l : Recognised(l) /\ l.field = SseField.data)) >= 2

\* C33: when the stream ends without a final blank line, parse_sse_stream
\* dispatches the trailing accumulated event exactly once if it is
\* nonempty; when the stream ended with a blank line it dispatches nothing
\* beyond the events of the blank-terminated blocks.
C33_TrailingEventOnce ==
    Len(parse_sse_stream(stream_data)) =
        Len(events) + (IF TrailingNonEmpty(Trailing(fed)) THEN 1 ELSE 0)

\* a stream whose last block has an id and no blank line after it: its
\* event is the last of parse_sse_stream, once
C33_Witness ==
    /\ Len(fed) >= 3
    /\ fed[Len(fed)] = FieldLine(SseField.id, <<"7">>)
    /\ events # <<>>
    /\ Len(parse_sse_stream(stream_data)) = Len(events) + 1
    /\ parse_sse_stream(stream_data)[Len(events) + 1].id = <<"7">>

\* C37: every blank line clears the accumulated state, so the custom-field
\* map of a dispatched event holds only unrecognised fields that appeared
\* since the previous blank line.
C37_FieldsOfOwnBlock ==
    [][Len(events') > Len(events) =>
          \A p \in events'[Len(events')].fields :
              \E i \in 1..Len(Trailing(fed)) :
                  /\ ~Recognised(Trailing(fed)[i])
                  /\ Trailing(fed)[i].field = p[1]
                  /\ Trailing(fed)[i].value = p[2]]_all_vars

\* C38: a block in which event, id, retry or data was set to a non-empty
\* value is dispatched as exactly one event at the next blank line, a block
\* with only a retry field included.
C38_NonEmptyBlockDispatched ==
    [][(/\ fed' = Append(fed, BlankLine)
        /\ \E i \in 1..Len(Trailing(fed)) :
              Recognised(Trailing(fed)[i]) /\ Trailing(fed)[i].value # <<>>)
       => Len(events') = Len(events) + 1]_all_vars

-----------------------------------------------------------------------------
(* HttpResponse::add_header and get_header on one response                 *)

MaxHeaderCalls == 3

\* header names differing in letter case only, and another name
HeaderKeys == {<<"A","b">>, <<"a","b">>, <<"A","B">>, <<"c">>}

\* response.add_header(key, value)
AddHeader(key, value) ==
    /\ Len(added) < MaxHeaderCalls
    /\ http_response' = add_header(http_response, key, value)
    /\ added' = Append(added, <<key, value>>)
    /\ UNCHANGED outside_header

HeaderInit ==
    /\ client = "sync"
    /\ config_ = [follow_redirects |-> TRUE, max_redirects |-> 0]
    /\ NoRequest
    /\ NoPolicy
    /\ NoCalls
    /\ NoLater

HeaderNext ==
    \E key \in HeaderKeys, value \in {<<"1">>, <<"2">>} : AddHeader(key, value)

HeaderSpec == HeaderInit /\ [][HeaderNext]_all_vars

\* the value of the last add_header call whose name equals key when letter
\* case is ignored; empty when there is none
RECURSIVE LastAdded(_, _)
LastAdded(calls_made, key) ==
    IF calls_made = <<>> THEN <<>>
    ELSE IF strcasecmp_impl(calls_made[Len(calls_made)][1], key)
    THEN calls_made[Len(calls_made)][2]
    ELSE LastAdded(SubSeq(calls_made, 1, Len(calls_made) - 1), key)

\* C36: after any sequence of add_header calls, get_header(name) returns
\* the value of the most recently added header whose name equals name
\* case-insensitively, and the empty string when there is none.
C36_LastHeaderWins ==
    \A key \in HeaderKeys \cup {<<"a","B">>, <<"C">>} :
        get_header(http_response, key) = LastAdded(added, key)

-----------------------------------------------------------------------------
(* decode_chunked on the chunked body a server sent                        *)

MaxChunks == 2

\* the value of a hexadecimal digit, -1 for any other char
HexValue(c) ==
    IF \E i \in 1..10 : DigitChars[i] = c
    THEN (CHOOSE i \in 1..10 : DigitChars[i] = c) - 1
    ELSE IF \E i \in 1..6 : LowerCase[i] = c
    THEN 9 + (CHOOSE i \in 1..6 : LowerCase[i] = c)
    ELSE IF \E i \in 1..6 : UpperCase[i] = c
    THEN 9 + (CHOOSE i \in 1..6 : UpperCase[i] = c)
    ELSE -1

\* stoul reading decimal digits only
RECURSIVE stoul16_Decimal(_, _)
stoul16_Decimal(line, acc) ==
    IF line = <<>> \/ HexValue(Head(line)) < 0 \/ HexValue(Head(line)) > 9
    THEN acc
    ELSE stoul16_Decimal(Tail(line),
                         (IF acc < 0 THEN 0 ELSE 10 * acc)
                             + HexValue(Head(line)))

\* std::stoul(line, nullptr, 16) for a line without blanks, sign or 0x:
\* the number its leading hex digits spell, whatever follows them; acc is
\* the value read so far, and -1 stands for the exception thrown when the
\* line starts with no hex digit
RECURSIVE stoul16(_, _)
stoul16(line, acc) ==
    IF line = <<>> \/ HexValue(Head(line)) < 0 THEN acc
    ELSE stoul16(Tail(line),
                 (IF acc < 0 THEN 0 ELSE 16 * acc) + HexValue(Head(line)))

\* the while loop of decode_chunked on the unread part of the stream.
\* line.back() of an empty line is undefined behaviour.
RECURSIVE DecodeLoop(_, _)
DecodeLoop(rest, result) ==
    IF rest = <<>> THEN [kind |-> "ok", body |-> result]
    ELSE
    LET nl == IndexOf(rest, NL)
        line0 == IF nl = 0 THEN rest ELSE SubSeq(rest, 1, nl - 1)
        rest1 == IF nl = 0 THEN <<>> ELSE Drop(rest, nl)
        line == StripCR(line0)
        chunk_size == stoul16(line, -1)
        got == IF chunk_size <= Len(rest1) THEN chunk_size ELSE Len(rest1)
        chunk_data == SubSeq(rest1, 1, got)
                         \o [i \in 1..(chunk_size - got) |-> "NUL"]
        rest2 == Drop(rest1, got)
        nl2 == IndexOf(rest2, NL)
        rest3 == IF nl2 = 0 THEN <<>> ELSE Drop(rest2, nl2)
    IN  IF line0 = <<>> THEN [kind |-> "undefined", body |-> result]
        ELSE IF line = <<>> THEN DecodeLoop(rest1, result)
        ELSE IF chunk_size <= 0 THEN [kind |-> "ok", body |-> result]
        ELSE DecodeLoop(rest3, result \o chunk_data)

decode_chunked(data) == DecodeLoop(data, <<>>)

\* the chunks a server writes: the two of the example, bytes with CR LF
\* inside, a lone LF, and 26 bytes
ChunkBodies ==
    {<<"H","e","l","l","o">>, <<" ","W","o","r","l","d">>,
     <<"a", CR, NL, "b">>, <<NL>>, LowerCase}

\* one chunk on the wire: its size in hex, CR LF, its bytes, CR LF
EncodeChunk(c) ==
    LET digit(n) == IF n < 10 THEN DigitChars[n + 1] ELSE LowerCase[n - 9]
        size == IF Len(c) < 16 THEN <<digit(Len(c))>>
                ELSE <<digit(Len(c) \div 16), digit(Len(c) % 16)>>
    IN  size \o <<CR, NL>> \o c \o <<CR, NL>>

\* the server writes one more chunk
WriteChunk(c) ==
    /\ framing = "open"
    /\ Len(chunks) < MaxChunks
    /\ chunks' = Append(chunks, c)
    /\ chunked_data' = chunked_data \o EncodeChunk(c)
    /\ UNCHANGED <<framing, decoded, outside_chunk>>

\* the server ends the body: the zero-size chunk, trailers if any, CR LF
WriteLast(trailers) ==
    /\ framing = "open"
    /\ chunked_data' = chunked_data \o <<"0", CR, NL>> \o trailers
                          \o <<CR, NL>>
    /\ framing' = "complete"
    /\ UNCHANGED <<chunks, decoded, outside_chunk>>

\* the connection is lost before the zero-size chunk: only the first n
\* bytes were received
ConnectionCut(n) ==
    /\ framing = "open"
    /\ n < Len(chunked_data)
    /\ chunked_data' = SubSeq(chunked_data, 1, n)
    /\ framing' = "truncated"
    /\ UNCHANGED <<chunks, decoded, outside_chunk>>

\* the server writes a chunk-size line that is not hexadecimal
BadSize ==
    /\ framing = "open"
    /\ chunked_data' = chunked_data \o <<"G", CR, NL, "x", CR, NL>>
    /\ framing' = "bad_size"
    /\ UNCHANGED <<chunks, decoded, outside_chunk>>

\* the body has ended and is decoded
Decode ==
    /\ framing # "open"
    /\ decoded = NotDecoded
    /\ decoded' = decode_chunked(chunked_data)
    /\ UNCHANGED <<chunks, chunked_data, framing, outside_chunk>>

ChunkInit ==
    /\ client = "sync"
    /\ config_ = [follow_redirects |-> TRUE, max_redirects |-> 0]
    /\ NoRequest
    /\ NoPolicy
    /\ NoCalls
    /\ NoLater

ChunkNext ==
    \/ \E c \in ChunkBodies : WriteChunk(c)
    \/ \E trailers \in {<<>>, <<"T", ":", "1", CR, NL>>} : WriteLast(trailers)
    \/ \E n \in 1..(MaxChunks + 1) * 30 : ConnectionCut(n)
    \/ BadSize
    \/ Decode

ChunkSpec == ChunkInit /\ [][ChunkNext]_all_vars

\* the bytes of the chunks one after the other
RECURSIVE Concat(_)
Concat(cs) == IF cs = <<>> THEN <<>> ELSE Head(cs) \o Concat(Tail(cs))

\* C34: decode_chunked applied to the well-formed chunked encoding of a
\* sequence of chunks returns exactly the concatenation of the chunk bytes,
\* also when they contain CR or LF, and ignores what follows the zero-size
\* chunk.
C34_DecodesToConcatenation ==
    (framing = "complete" /\ decoded # NotDecoded)
        => decoded = [kind |-> "ok", body |-> Concat(chunks)]

\* 5 Hello / 6 " World" / 0 has been decoded to "Hello World"
C34_Witness ==
    /\ framing = "complete"
    /\ chunks = <<<<"H","e","l","l","o">>, <<" ","W","o","r","l","d">>>>
    /\ decoded = [kind |-> "ok", body |-> <<"H","e","l","l","o"," ","W","o","r","l","d">>]

\* C35: malformed or truncated chunk framing is an error, never a body: a
\* size line that is not hex, fewer bytes than the chunk size declares, or
\* input ending before the zero-size chunk make decoding fail.
\* No returned body contains bytes that were not in the input.
C35_BadFramingFails ==
    /\ (framing \in {"truncated", "bad_size"} /\ decoded # NotDecoded)
          => decoded.kind = "error"
    /\ decoded.kind = "ok" =>
          \A i \in 1..Len(decoded.body) :
              \E j \in 1..Len(chunked_data) :
                  chunked_data[j] = decoded.body[i]

====
